---- MODULE Spec2Model ----
(***************************************************************************)
(* The persisted application store of apps/mfe-template                    *)
(* (src/shared/hooks/use-query.ts, useAppStore): a zustand store wrapped   *)
(* in the persist middleware with                                          *)
(*     name: "app-storage", partialize: {theme, language}.                 *)
(*                                                                         *)
(* The store module itself only supplies the initial state, the five       *)
(* actions and the persist options.  What `persist` does with them is the  *)
(* middleware's documented behaviour, modelled here as the middleware      *)
(* implements it:                                                          *)
(*   - the `set` handed to the store creator is                            *)
(*         (...args) => { set(...args); return setItem() }                 *)
(*     so EVERY action that calls set first updates memory and then        *)
(*     writes partialize(state) to storage[name], whichever field the      *)
(*     action changed, and nothing catches what storage.setItem throws;    *)
(*   - the default storage is createJSONStorage(() => localStorage):       *)
(*     setItem stores JSON.stringify({state, version}), getItem            *)
(*     JSON.parses the stored text (null when the key is absent);          *)
(*   - at creation the store hydrates synchronously: the stored state, if  *)
(*     any and of the current version, is merged over the initial state    *)
(*     with the default merge {...current, ...persisted}.                  *)
(*                                                                         *)
(* The module error boundary (shared/components/error-boundary,            *)
(* ModuleErrorBoundary): react-error-boundary's ErrorBoundary around a     *)
(* React Suspense around the children, as React runs them:                 *)
(*   - an error thrown while the children render is caught by the nearest  *)
(*     enclosing ErrorBoundary: getDerivedStateFromError sets              *)
(*     {didCatch, error}, componentDidCatch calls onError once, and        *)
(*     the boundary renders its FallbackComponent in place of the children;*)
(*   - a child that suspends makes the nearest Suspense render its         *)
(*     fallback until the awaited resource resolves, and then the children *)
(*     are rendered again;                                                 *)
(*   - resetErrorBoundary calls onReset, sets the state back to            *)
(*     {didCatch: false, error: null} and the children are mounted anew;   *)
(*   - what a timer or an event handler throws is not seen by any          *)
(*     boundary.                                                           *)
(*                                                                         *)
(* The router (routes/router.tsx, route-error-boundary.tsx): the route     *)
(* objects are matched as react-router matches them (branches ranked by    *)
(* score, matching without regard to case, a splat taking any rest), and   *)
(* RouteErrorBoundary renders what getErrorInfo() makes of the value of    *)
(* useRouteError().                                                        *)
(*                                                                         *)
(* useHomeData (modules/home/hooks/use-home-data.ts): three useState cells *)
(* and fetchData, an async function that stops at its await and resumes    *)
(* as a job once the promise of homeApi.getData() has settled; calls may   *)
(* overlap.                                                                *)
(*                                                                         *)
(* debounce (utils/date-helpers.ts): one `timeout` per closure, and the    *)
(* host's timers, which run no earlier than they are due and possibly      *)
(* later.                                                                  *)
(***************************************************************************)
EXTENDS Integers, Sequences, FiniteSets, TLC

\* The clock runs over 0 .. MaxClock.
MaxClock == 1

\* At most MaxToggles toggleTheme calls are started between two setTheme calls
\* (in the specification that splits toggleTheme).
MaxToggles == 3

\* theme: "light" | "dark"
Themes == {"light", "dark"}

\* language: string, unvalidated; a sample of locale codes.
Languages == {"en", "fr"}

\* Components that call the store's actions (one shared store instance).
Callers == {"header", "settings"}

\* persist options: name and (default) version.
Options == [name |-> "app-storage", version |-> 0]

\* localStorage.getItem(name) of a key that was never written.
NoItem == <<>>

\* The order in which JSON.stringify emits the keys of a state object
\* (insertion order of the object literal that partialize builds).
KeyOrder == <<"theme", "language", "isOnline", "lastActivity">>

VARIABLES
    store,         \* in-memory state of useAppStore: theme, language, isOnline, lastActivity
    storage,       \* text held by localStorage under Options.name, or NoItem
    initialState,  \* the module constant initialState of the running process
    clock,         \* current time (what new Date() returns)
    call,          \* the most recent completed call: op, arg, caller, wrote, threw
    before,        \* store and storage as they were when that call started
    prev,          \* <<theme when it started>> if the call before that one was a
                   \* toggleTheme of this process, else <<>>
    written,       \* <<object>> last handed to a storage write that succeeded, or <<>>
    lastSet,       \* per field, <<argument>> of the latest setTheme / setLanguage of
                   \* this process that no toggleTheme has overridden, or <<>>
    pending,       \* per caller, <<theme read>> by a toggleTheme that has done its
                   \* get() and not yet its set(), or <<>>
    run,           \* the toggleTheme calls since the latest setTheme (or the start):
                   \* origin = theme they started from, done = completed calls,
                   \* lost = calls that wrote from a theme no longer current,
                   \* overlap = some call ran inside another's get .. set
    boundary,      \* per ModuleErrorBoundary: mounted, rendered (its children have
                   \* rendered since it was mounted or reset), didCatch and error
                   \* (the ErrorBoundary state), pending (its Suspense waits), and
                   \* reported (the onError calls made since that state was initial)
    route,         \* error shown by the route's errorElement, or "none"
    event,         \* the latest step of the user interface: op, b, outcome, error
    page,          \* the boundaries the page mounts at top level
    nav,           \* what the router shows: the pathname, the elements of the
                   \* matched routes, the route error shown (or NoError) with
                   \* its errorInfo and the buttons offered, the latest step
    hook,          \* useHomeData: data, loading and error (the three useState
                   \* cells), the fetchData calls in flight, the latest step
    deb            \* the debounced functions: the time, each closure's timeout,
                   \* the host's pending timers, and the calls and invocations
                   \* made so far

ui == <<boundary, route, event, page>>

side == <<nav, hook, deb>>

vars == <<store, storage, initialState, clock, call, before, prev, written, lastSet,
          pending, run, ui, side>>

----------------------------------------------------------------------------
(* JSON text, as a sequence of tokens.                                     *)

RECURSIVE StringifyKeys(_, _)
StringifyKeys(obj, keys) ==
    IF keys = <<>> THEN <<>>
    ELSE IF Head(keys) \in DOMAIN obj
         THEN <<Head(keys), obj[Head(keys)]>> \o StringifyKeys(obj, Tail(keys))
         ELSE StringifyKeys(obj, Tail(keys))

\* JSON.stringify({state, version})
Stringify(item) ==
    <<"state", StringifyKeys(item.state, KeyOrder), "version", item.version>>

ParseKeys(pairs) ==
    LET idx == {i \in 1..Len(pairs) : i % 2 = 1}
        keys == {pairs[i] : i \in idx}
    IN  [k \in keys |-> pairs[(CHOOSE i \in idx : pairs[i] = k) + 1]]

\* JSON.parse(text) of a text written by Stringify
Parse(text) == [state |-> ParseKeys(text[2]), version |-> text[4]]

----------------------------------------------------------------------------
(* The store module.                                                       *)

\* const initialState, evaluated when the module is loaded at time t
InitialStateAt(t) ==
    [theme |-> "light", language |-> "en", isOnline |-> TRUE, lastActivity |-> t]

\* A partialize that lets isOnline through.
partialize_WithOnline(state) ==
    [theme |-> state.theme, language |-> state.language, isOnline |-> state.isOnline]

\* partialize: state => ({ theme: state.theme, language: state.language })
partialize(state) == [theme |-> state.theme, language |-> state.language]

\* A set that drops the partial state.
Assign_Dropped(state, partial) == state

\* A set that merges the partial state over the initial state.
Assign_OverInitial(state, partial) ==
    [k \in DOMAIN state |-> IF k \in DOMAIN partial THEN partial[k] ELSE initialState[k]]

\* zustand set(partial): shallow merge of the partial state over the state
Assign(state, partial) ==
    [k \in DOMAIN state |-> IF k \in DOMAIN partial THEN partial[k] ELSE state[k]]

\* persist's default merge: {...currentState, ...persistedState}
Merge(persisted, current) ==
    [k \in DOMAIN current \cup DOMAIN persisted |->
        IF k \in DOMAIN persisted THEN persisted[k] ELSE current[k]]

\* persist's hydrate(): read storage[name]; a stored item of the current
\* version is merged over the current state, anything else leaves it as is.
Hydrate(text, current) ==
    IF text = NoItem THEN current
    ELSE IF Parse(text).version # Options.version THEN current
    ELSE Merge(Parse(text).state, current)

\* persist's setItem(): the text written for the state `state`
setItem(state) == Stringify([state |-> partialize(state), version |-> Options.version])

\* A wrapped set that writes first and sets only once the write succeeded.
persistSet_WriteFirst(state, text, partial, fails) ==
    LET next == Assign(state, partial)
    IN  [store   |-> IF fails THEN state ELSE next,
         storage |-> IF fails THEN text ELSE setItem(next),
         wrote   |-> IF fails THEN "failed" ELSE "ok",
         threw   |-> fails]

\* A wrapped set that writes the state as it was before the set.
persistSet_StaleWrite(state, text, partial, fails) ==
    LET next == Assign(state, partial)
    IN  [store   |-> next,
         storage |-> IF fails THEN text ELSE setItem(state),
         wrote   |-> IF fails THEN "failed" ELSE "ok",
         threw   |-> fails]

\* The set that persist hands to the store creator:
\*     set(partial); return setItem()
\* `fails` is whether localStorage.setItem throws on this write (quota
\* exceeded, storage disabled).  Memory is updated before the write; what the
\* write throws is not caught, so it leaves through the calling action.
persistSet(state, text, partial, fails) ==
    LET next == Assign(state, partial)
    IN  [store   |-> next,
         storage |-> IF fails THEN text ELSE setItem(next),
         wrote   |-> IF fails THEN "failed" ELSE "ok",
         threw   |-> fails]

\* A flip whose two branches give the same value.
Flip_Stuck(theme) == IF theme = "light" THEN "dark" ELSE "dark"

\* A flip with a misspelt literal.
Flip_Typo(theme) == IF theme = "light" THEN "dark" ELSE "ligth"

\* theme === "light" ? "dark" : "light"
Flip(theme) == IF theme = "light" THEN "dark" ELSE "light"

----------------------------------------------------------------------------
(* The module error boundary.                                              *)

\* The ModuleErrorBoundary instances: the one of the home route, and, as the
\* routing guide has every domain route wrap its pages, one around a
\* dashboard page with a further one around a widget inside that page.
Boundaries == {"home", "dashboard", "widget"}

\* What encloses each boundary: another boundary, or the route element.
Parent == [home |-> "route", dashboard |-> "route", widget |-> "dashboard"]

\* The props each instance is given ("none": the prop is left out).  The home
\* route passes none; the dashboard page passes its own handler and fallback.
Props ==
    [home      |-> [onError |-> "none", fallback |-> "none"],
     dashboard |-> [onError |-> "reportError", fallback |-> "DashboardFallback"],
     widget    |-> [onError |-> "none", fallback |-> "none"]]

\* Errors a component may throw.
Errors == {"TypeError", "ChunkLoadError"}

\* What rendering the children of a boundary comes to.
Outcomes == {"ok", "throws", "suspends"}

\* A ModuleErrorBoundary that always uses the default handler.
OnError_DefaultOnly(b) == "handleError"

\* onError = handleError: the caller's handler, the logging one by default
OnError(b) ==
    IF Props[b].onError = "none" THEN "handleError" ELSE Props[b].onError

\* fallback: FallbackComponent = DefaultErrorFallback
FallbackComponent(b) ==
    IF Props[b].fallback = "none" THEN "DefaultErrorFallback" ELSE Props[b].fallback

\* A boundary just mounted: ErrorBoundary state {didCatch: false, error: null},
\* nothing awaited, children not rendered yet.
Fresh ==
    [mounted |-> TRUE, rendered |-> FALSE, didCatch |-> FALSE, error |-> "none",
     pending |-> FALSE, reported |-> <<>>]

\* A boundary that is not in the tree.
Unmounted == [Fresh EXCEPT !.mounted = FALSE]

\* The tree of a page at its start.
Mounted0(top) == [b \in Boundaries |-> IF b \in top THEN Fresh ELSE Unmounted]

\* The state of the boundary's state machine.
Status(s) ==
    IF s.didCatch THEN "errored"
    ELSE IF s.pending THEN "suspended"
    ELSE "rendering-children"

\* A Suspense that keeps the children on screen next to its fallback.
SuspenseShown_Both(s) ==
    IF s.pending THEN {"loading", "children"} ELSE {"children"}

\* <Suspense fallback={<LoadingSpinner />}>{children}</Suspense>
SuspenseShown(s) ==
    IF s.pending THEN {"loading"} ELSE {"children"}

\* What the boundary renders: ErrorBoundary renders the FallbackComponent
\* once it has caught, and otherwise its children, the Suspense.
Shown(s) ==
    IF s.didCatch THEN {"fallback"} ELSE SuspenseShown(s)

\* A runtime whose boundaries see every exception.
Caught_Everywhere(phase) == TRUE

\* React hands a boundary only what is thrown while rendering or committing
\* its subtree, not what a timer or an event handler throws.
Caught(phase) == phase \in {"render", "commit"}

\* An error that passes the nearest boundary and is caught one level up.
Catcher_Enclosing(b) == IF Parent[b] \in Boundaries THEN Parent[b] ELSE b

\* The boundary that catches what the content directly inside b throws: the
\* nearest enclosing one.
Catcher(b) == b

\* getDerivedStateFromError(error) and componentDidCatch(error, info): the
\* state becomes {didCatch: true, error} and onError is called.
Catch(s, b, e) ==
    [s EXCEPT !.didCatch = TRUE, !.error = e, !.pending = FALSE, !.rendered = FALSE,
              !.reported = Append(@, [handler |-> OnError(b), error |-> e])]

\* A reset that leaves the ErrorBoundary state as it is.
resetErrorBoundary_KeepsError(s) == [s EXCEPT !.reported = <<>>]

\* resetErrorBoundary(): setState({didCatch: false, error: null}); the
\* children are mounted anew.
resetErrorBoundary(s) == Fresh

\* An onReset that puts the application state back to its initial value.
onReset_ClearsStore(state) == initialState

\* onReset={() => { console.log("Error boundary reset"); }}: nothing but a
\* log line; the application state it is given comes back unchanged.
onReset(state) == state

\* Boundaries inside a boundary live and die with its children: they are
\* unmounted when it shows its fallback (or is unmounted itself) and mounted
\* fresh once its children have rendered.
Settle(bs) ==
    [c \in Boundaries |->
        IF Parent[c] \notin Boundaries THEN bs[c]
        ELSE LET p == bs[Parent[c]]
             IN  IF ~p.mounted \/ p.didCatch THEN Unmounted
                 ELSE IF p.rendered /\ ~bs[c].mounted THEN Fresh
                 ELSE bs[c]]

\* A boundary without the Suspense: what the content awaits reaches the
\* ErrorBoundary like anything else that is thrown.
Rendered_NoSuspense(bs, b, outcome, e) ==
    Settle(
        IF outcome = "ok"
        THEN [bs EXCEPT ![b].pending = FALSE, ![b].rendered = TRUE]
        ELSE [bs EXCEPT ![Catcher(b)] = Catch(@, Catcher(b), e)])

\* The tree after the content directly inside boundary b has rendered with
\* the given outcome.
Rendered(bs, b, outcome, e) ==
    Settle(
        IF outcome = "throws"
        THEN IF Caught("render")
             THEN [bs EXCEPT ![Catcher(b)] = Catch(@, Catcher(b), e)]
             ELSE bs
        ELSE IF outcome = "suspends"
        THEN [bs EXCEPT ![b].pending = TRUE]
        ELSE [bs EXCEPT ![b].pending = FALSE, ![b].rendered = TRUE])

\* The record of a step of the user interface.
Event(op, b, outcome, e) ==
    [op |-> op, b |-> b, outcome |-> outcome,
     error |-> IF outcome = "throws" THEN e ELSE "none"]

----------------------------------------------------------------------------
(* The router.                                                             *)

\* JavaScript's undefined, and a number or a string written as its text.
Undefined == "undefined"

\* Longest pathname tried, in segments.
MaxSegments == 2

\* The segments a pathname is made of.
Segments == {"home", "Home", "about", "features"}

\* The pathnames tried: "/", "/home", "/Home", "/about", "/home/features", ...
Pathnames == UNION {[1..n -> Segments] : n \in 0..MaxSegments}

\* The route objects of createBrowserRouter([...]), each with the route it
\* is a child of, in the order they are declared.
Routes ==
    [root      |-> [parent |-> "none", path |-> <<>>, index |-> FALSE,
                    element |-> <<"Layout">>, errorElement |-> TRUE, order |-> 1],
     rootIndex |-> [parent |-> "root", path |-> Undefined, index |-> TRUE,
                    element |-> <<"ModuleErrorBoundary", "HomeContainer">>,
                    errorElement |-> FALSE, order |-> 2],
     home      |-> [parent |-> "root", path |-> <<"home">>, index |-> FALSE,
                    element |-> <<>>, errorElement |-> FALSE, order |-> 3],
     homeIndex |-> [parent |-> "home", path |-> Undefined, index |-> TRUE,
                    element |-> <<"ModuleErrorBoundary", "HomeContainer">>,
                    errorElement |-> FALSE, order |-> 4],
     splat     |-> [parent |-> "none", path |-> <<"*">>, index |-> FALSE,
                    element |-> <<"Layout404">>, errorElement |-> FALSE,
                    order |-> 5]]

\* The routes from the top of the tree down to route r.
RECURSIVE Chain(_)
Chain(r) ==
    IF Routes[r].parent = "none" THEN <<r>>
    ELSE Append(Chain(Routes[r].parent), r)

\* The path of a branch: the paths of its routes joined.
RECURSIVE Joined(_)
Joined(chain) ==
    IF chain = <<>> THEN <<>>
    ELSE LET r == Routes[Head(chain)]
         IN  (IF r.path = Undefined THEN <<>> ELSE r.path) \o Joined(Tail(chain))

\* path.split("/") of the joined path: "/" gives two empty segments.
Split(path) == IF path = <<>> THEN <<"", "">> ELSE <<"">> \o path

RECURSIVE SegmentScore(_)
SegmentScore(segments) ==
    IF segments = <<>> THEN 0
    ELSE (IF Head(segments) = "*" THEN 0
          ELSE IF Head(segments) = "" THEN 1
          ELSE 10) + SegmentScore(Tail(segments))

\* computeScore(path, index) of the router: the number of segments, -2 for
\* a splat, +2 for an index route, 1 per empty and 10 per static segment.
computeScore(r) ==
    LET segments == Split(Joined(Chain(r)))
    IN  Len(segments)
        + (IF \E i \in DOMAIN segments : segments[i] = "*" THEN -2 ELSE 0)
        + (IF Routes[r].index THEN 2 ELSE 0)
        + SegmentScore(segments)

\* Matching ignores case.
Lower(segment) == IF segment = "Home" THEN "home" ELSE segment

\* A matcher that is content with a prefix of the pathname.
RECURSIVE MatchesPath_Prefix(_, _)
MatchesPath_Prefix(pattern, pathname) ==
    IF pattern = <<>> THEN TRUE
    ELSE IF Head(pattern) = "*" THEN TRUE
    ELSE /\ pathname # <<>>
         /\ Lower(Head(pattern)) = Lower(Head(pathname))
         /\ MatchesPath_Prefix(Tail(pattern), Tail(pathname))

\* matchPath with end: true: every static segment equals the pathname's,
\* a splat takes whatever is left, and nothing may be left over.
RECURSIVE MatchesPath(_, _)
MatchesPath(pattern, pathname) ==
    IF pattern = <<>> THEN pathname = <<>>
    ELSE IF Head(pattern) = "*" THEN TRUE
    ELSE /\ pathname # <<>>
         /\ Lower(Head(pattern)) = Lower(Head(pathname))
         /\ MatchesPath(Tail(pattern), Tail(pathname))

\* matchRoutes: of the branches that match, the one ranked first (highest
\* score, the earlier declared one on a tie).
matchRoutes(pathname) ==
    LET matching == {r \in DOMAIN Routes : MatchesPath(Joined(Chain(r)), pathname)}
    IN  CHOOSE r \in matching :
            \A q \in matching :
                \/ computeScore(q) < computeScore(r)
                \/ (computeScore(q) = computeScore(r)
                        /\ Routes[q].order >= Routes[r].order)

\* The elements rendered for a branch, outermost first.
RECURSIVE Elements(_)
Elements(chain) ==
    IF chain = <<>> THEN <<>>
    ELSE Routes[Head(chain)].element \o Elements(Tail(chain))

\* Whether an error thrown inside the branch finds an errorElement.
HasErrorElement(r) ==
    \E i \in DOMAIN Chain(r) : Routes[Chain(r)[i]].errorElement

\* No error is shown by the route.
NoError ==
    [kind |-> "none", status |-> Undefined, statusText |-> Undefined,
     message |-> Undefined]

\* The values useRouteError() may return: null, undefined, a thrown string,
\* or an object with some of status, statusText and message.
RouteErrors ==
    [kind       : {"null", "undefined", "string"},
     status     : {Undefined},
     statusText : {Undefined},
     message    : {Undefined}]
    \cup
    [kind       : {"object"},
     status     : {Undefined, "0", "403", "404", "500"},
     statusText : {Undefined, "Forbidden"},
     message    : {Undefined, "", "boom"}]

\* error?.field
Field(error, field) ==
    IF error.kind = "object" THEN error[field] ELSE Undefined

\* Truthiness of a number or undefined, and of a string or undefined.
TruthyNumber(n) == n \notin {Undefined, "0"}

TruthyString(text) == text \notin {Undefined, ""}

\* A getErrorInfo that leaves out the retry button on a server error too.
getErrorInfo_NoRetryOn500(error) ==
    IF Field(error, "status") \in {"404", "500"}
    THEN [title |-> <<Field(error, "status")>>, message |-> <<"default">>,
          showRetry |-> FALSE]
    ELSE [title |-> <<"Algo salió mal!">>, message |-> <<"default">>,
          showRetry |-> TRUE]

\* A getErrorInfo that asks for any status before it asks for 404 and 500.
getErrorInfo_AnyStatusFirst(error) ==
    IF TruthyNumber(Field(error, "status"))
    THEN [title |-> <<error.status, " - ", error.statusText>>,
          message |-> IF TruthyString(error.message) THEN <<error.message>>
                      ELSE <<"Ocurrió un error al cargar esta página.">>,
          showRetry |-> TRUE]
    ELSE [title |-> <<"Algo salió mal!">>,
          message |-> IF TruthyString(Field(error, "message"))
                      THEN <<error.message>>
                      ELSE <<"Ocurrió un error inesperado al navegar.">>,
          showRetry |-> TRUE]

\* getErrorInfo(): title and message are the pieces of the text, the title
\* of the third case being the template `${status} - ${statusText}`.
getErrorInfo(error) ==
    IF Field(error, "status") = "404"
    THEN [title |-> <<"404 - Página no encontrada">>,
          message |-> <<"La página que estás buscando no existe.">>,
          showRetry |-> FALSE]
    ELSE IF Field(error, "status") = "500"
    THEN [title |-> <<"500 - Server Error">>,
          message |-> <<"Algo salió mal en nuestro servidor. Por favor, intenta nuevamente.">>,
          showRetry |-> TRUE]
    ELSE IF TruthyNumber(Field(error, "status"))
    THEN [title |-> <<error.status, " - ", error.statusText>>,
          message |-> IF TruthyString(error.message) THEN <<error.message>>
                      ELSE <<"Ocurrió un error al cargar esta página.">>,
          showRetry |-> TRUE]
    ELSE [title |-> <<"Algo salió mal!">>,
          message |-> IF TruthyString(Field(error, "message"))
                      THEN <<error.message>>
                      ELSE <<"Ocurrió un error inesperado al navegar.">>,
          showRetry |-> TRUE]

\* Nothing is rendered by RouteErrorBoundary.
NoInfo == [title |-> <<>>, message |-> <<>>, showRetry |-> FALSE]

\* The buttons RouteErrorBoundary renders.
Buttons(errorInfo) ==
    {"handleGoHome"} \cup (IF errorInfo.showRetry THEN {"handleRetry"} ELSE {})

\* The router at a pathname, nothing thrown.
Located(pathname) ==
    [pathname |-> pathname,
     match |-> Elements(Chain(matchRoutes(pathname))),
     caught |-> HasErrorElement(matchRoutes(pathname)),
     error |-> NoError,
     errorInfo |-> NoInfo,
     buttons |-> {},
     op |-> "navigate"]

----------------------------------------------------------------------------
(* useHomeData.                                                            *)

\* The fetchData calls that may be in flight at once.
MaxInFlight == 2

Slots == 1..MaxInFlight

\* What homeApi.getData() may resolve with: lists of HomeData.
Results == {<<>>, <<"item1">>}

\* No settlement: the promise of homeApi.getData() is pending.
Pending ==
    [resolved |-> FALSE, value |-> <<>>, isError |-> FALSE, message |-> "pending"]

\* How the promise may settle: resolved with a list, or rejected with an
\* Error (a message, possibly empty) or with something that is no Error.
Settlements ==
    [resolved : {TRUE}, value : Results, isError : {FALSE}, message : {""}]
    \cup
    [resolved : {FALSE}, value : {<<>>}, isError : BOOLEAN,
     message : {"Network Error", ""}]

\* A fetchData call that is not running.
NoFetch == [state |-> "idle", outcome |-> Pending]

\* const [data] = useState([]), [loading] = useState(false),
\* [error] = useState(null): the hook when the component mounts.  calls
\* holds the fetchData calls, each idle, awaiting, or resumable (its
\* promise has settled and the rest of the function has yet to run); op,
\* slot, outcome, prior and threw describe the latest step: what it was,
\* of which call, how that call's promise settled, the data before it, and
\* whether the promise fetchData returned was rejected.
useState ==
    [data |-> <<>>, loading |-> FALSE, error |-> "null",
     calls |-> [slot \in Slots |-> NoFetch],
     op |-> "mount", slot |-> 0, outcome |-> Pending, prior |-> <<>>,
     threw |-> FALSE]

\* The calls of fetchData that have started and not returned.
InFlight(h) == {slot \in Slots : h.calls[slot].state # "idle"}

\* err instanceof Error ? err.message : "Failed to fetch data"
ErrorText(err) == IF err.isError THEN err.message ELSE "Failed to fetch data"

\* fetchData up to its await: setLoading(true); setError(null);
\* homeApi.getData() is called.
Fetching(h, slot) ==
    [h EXCEPT !.loading = TRUE, !.error = "null",
              !.calls[slot] = [state |-> "awaiting", outcome |-> Pending],
              !.op = "fetchData", !.slot = slot, !.outcome = Pending,
              !.prior = h.data, !.threw = FALSE]

\* A fetchData whose setLoading(false) is the last statement of the try
\* block.
Resumed_NoFinally(h, slot) ==
    LET outcome == h.calls[slot].outcome
    IN  [h EXCEPT !.data = IF outcome.resolved THEN outcome.value ELSE @,
                  !.error = IF outcome.resolved THEN @ ELSE ErrorText(outcome),
                  !.loading = IF outcome.resolved THEN FALSE ELSE @,
                  !.calls[slot] = NoFetch,
                  !.op = IF outcome.resolved THEN "resolved" ELSE "rejected",
                  !.slot = slot, !.outcome = outcome, !.prior = h.data,
                  !.threw = FALSE]

\* fetchData after its await: setData(result) in the try block, or
\* setError(...) in the catch block, then setLoading(false) in the finally
\* block; the catch block throws nothing, so the call returns normally.
Resumed(h, slot) ==
    LET outcome == h.calls[slot].outcome
    IN  [h EXCEPT !.data = IF outcome.resolved THEN outcome.value ELSE @,
                  !.error = IF outcome.resolved THEN @ ELSE ErrorText(outcome),
                  !.loading = FALSE,
                  !.calls[slot] = NoFetch,
                  !.op = IF outcome.resolved THEN "resolved" ELSE "rejected",
                  !.slot = slot, !.outcome = outcome, !.prior = h.data,
                  !.threw = FALSE]

----------------------------------------------------------------------------
(* debounce.                                                               *)

\* How far the time runs, and how many calls are made in all.
MaxNow == 3

MaxCalls == 3

\* The debounced functions made, each by its own debounce(func, wait).
Debounced == {"search", "resize"}

\* The wait each was made with.
Wait == [search |-> 2, resize |-> 1]

\* The arguments they are called with.
Args == {"a", "b"}

\* Nothing has called a debounced function: `let timeout` holds no timer.
NoCalls ==
    [now |-> 0, timeout |-> [f \in Debounced |-> 0], timers |-> {}, nextId |-> 1,
     calls |-> [f \in Debounced |-> <<>>], invoked |-> [f \in Debounced |-> <<>>]]

\* A clearTimeout that cancels nothing.
clearTimeout_Noop(timers, id) == timers

\* clearTimeout(id): the timer with that id is dropped if it is pending;
\* undefined (0) or the id of a timer that has fired cancels nothing.
clearTimeout(timers, id) == {timer \in timers : timer.id # id}

\* A setTimeout that is given no delay.
setTimeout_NoDelay(d, f, args) ==
    [id |-> d.nextId, fn |-> f, due |-> d.now, args |-> args,
     call |-> Len(d.calls[f]) + 1]

\* setTimeout(() => func(...args), wait): a timer of the host, due wait
\* from now, that will invoke func with the arguments of this call.
setTimeout(d, f, args) ==
    [id |-> d.nextId, fn |-> f, due |-> d.now + Wait[f], args |-> args,
     call |-> Len(d.calls[f]) + 1]

\* The function debounce returns, called with args:
\* clearTimeout(timeout); timeout = setTimeout(...).
Returned(d, f, args) ==
    [d EXCEPT !.timers = clearTimeout(d.timers, d.timeout[f])
                            \cup {setTimeout(d, f, args)},
              !.timeout[f] = d.nextId,
              !.nextId = d.nextId + 1,
              !.calls[f] = Append(@, [t |-> d.now, args |-> args])]

----------------------------------------------------------------------------
(* Actions.                                                                *)

\* The record of a store created at time t.
Created(t) == [op |-> "create", arg |-> t, caller |-> "none",
               wrote |-> "none", threw |-> FALSE]

Init ==
    /\ clock = 0
    /\ initialState = InitialStateAt(0)
    /\ storage = NoItem
    /\ store = Hydrate(NoItem, InitialStateAt(0))
    /\ call = Created(0)
    /\ before = [store |-> InitialStateAt(0), storage |-> NoItem]
    /\ prev = <<>>
    /\ written = <<>>
    /\ lastSet = [theme |-> <<>>, language |-> <<>>]
    /\ pending = [c \in Callers |-> <<>>]
    /\ run = [origin |-> "light", done |-> 0, lost |-> 0, overlap |-> FALSE]
    /\ page = {"home"}
    /\ boundary = Mounted0({"home"})
    /\ route = "none"
    /\ event = Event("start", "route", "none", "none")
    /\ nav = Located(<<>>)
    /\ hook = useState
    /\ deb = NoCalls

\* The record of a completed call and of the state it started from.
Called(op, arg, caller, r) ==
    [op |-> op, arg |-> arg, caller |-> caller, wrote |-> r.wrote, threw |-> r.threw]

Snapshot == [store |-> store, storage |-> storage]

Earlier == IF call.op = "toggleTheme" THEN <<before.store.theme>> ELSE <<>>

Written(r) == IF r.wrote = "ok" THEN <<partialize(r.store)>> ELSE written

\* setTheme: theme => set({ theme })
SetTheme ==
    \E c \in Callers, v \in Themes, fails \in BOOLEAN :
        LET r == persistSet(store, storage, [theme |-> v], fails)
        IN  /\ store' = r.store
            /\ storage' = r.storage
            /\ call' = Called("setTheme", v, c, r)
            /\ before' = Snapshot
            /\ prev' = Earlier
            /\ written' = Written(r)
            /\ lastSet' = [lastSet EXCEPT !.theme = <<v>>]
            /\ UNCHANGED <<initialState, clock, pending, run, ui, side>>

\* setLanguage: language => set({ language })
SetLanguage ==
    \E c \in Callers, l \in Languages, fails \in BOOLEAN :
        LET r == persistSet(store, storage, [language |-> l], fails)
        IN  /\ store' = r.store
            /\ storage' = r.storage
            /\ call' = Called("setLanguage", l, c, r)
            /\ before' = Snapshot
            /\ prev' = Earlier
            /\ written' = Written(r)
            /\ lastSet' = [lastSet EXCEPT !.language = <<l>>]
            /\ UNCHANGED <<initialState, clock, pending, run, ui, side>>

\* setOnlineStatus: isOnline => set({ isOnline })
SetOnlineStatus ==
    \E c \in Callers, b \in BOOLEAN, fails \in BOOLEAN :
        LET r == persistSet(store, storage, [isOnline |-> b], fails)
        IN  /\ store' = r.store
            /\ storage' = r.storage
            /\ call' = Called("setOnlineStatus", b, c, r)
            /\ before' = Snapshot
            /\ prev' = Earlier
            /\ written' = Written(r)
            /\ UNCHANGED <<initialState, clock, lastSet, pending, run, ui, side>>

\* An updateLastActivity that builds its date from a constant: new Date(0).
UpdateLastActivity_Epoch ==
    \E c \in Callers, fails \in BOOLEAN :
        LET r == persistSet(store, storage, [lastActivity |-> 0], fails)
        IN  /\ store' = r.store
            /\ storage' = r.storage
            /\ call' = Called("updateLastActivity", "none", c, r)
            /\ before' = Snapshot
            /\ prev' = Earlier
            /\ written' = Written(r)
            /\ UNCHANGED <<initialState, clock, lastSet, pending, run, ui, side>>

\* updateLastActivity: () => set({ lastActivity: new Date() })
UpdateLastActivity ==
    \E c \in Callers, fails \in BOOLEAN :
        LET r == persistSet(store, storage, [lastActivity |-> clock], fails)
        IN  /\ store' = r.store
            /\ storage' = r.storage
            /\ call' = Called("updateLastActivity", "none", c, r)
            /\ before' = Snapshot
            /\ prev' = Earlier
            /\ written' = Written(r)
            /\ UNCHANGED <<initialState, clock, lastSet, pending, run, ui, side>>

\* toggleTheme: () => { const { theme } = get(); set({ theme: flipped }) }
\* One synchronous function: no other code runs between its get and its set.
ToggleTheme ==
    \E c \in Callers, fails \in BOOLEAN :
        LET theme == store.theme
            r == persistSet(store, storage, [theme |-> Flip(theme)], fails)
        IN  /\ store' = r.store
            /\ storage' = r.storage
            /\ call' = Called("toggleTheme", "none", c, r)
            /\ before' = Snapshot
            /\ prev' = Earlier
            /\ written' = Written(r)
            /\ lastSet' = [lastSet EXCEPT !.theme = <<>>]
            /\ UNCHANGED <<initialState, clock, pending, run, ui, side>>

\* Time passes.
Tick ==
    /\ clock < MaxClock
    /\ clock' = clock + 1
    /\ UNCHANGED <<store, storage, initialState, call, before, prev, written, lastSet,
                   pending, run, ui, side>>

\* A reload that only mounts the page anew, in the process that is running.
StartProcess_SameProcess ==
    /\ call' = Created(clock)
    /\ before' = Snapshot
    /\ prev' = <<>>
    /\ boundary' = Mounted0(page)
    /\ route' = "none"
    /\ UNCHANGED <<store, initialState, lastSet, storage, clock, written, pending,
                   run, page, side>>

\* A new process over the same localStorage: the module is evaluated again
\* (initialState, create, hydration) and the page is mounted from scratch.
StartProcess ==
    /\ initialState' = InitialStateAt(clock)
    /\ store' = Hydrate(storage, InitialStateAt(clock))
    /\ call' = Created(clock)
    /\ before' = Snapshot
    /\ prev' = <<>>
    /\ lastSet' = [theme |-> <<>>, language |-> <<>>]
    /\ boundary' = Mounted0(page)
    /\ route' = "none"
    /\ UNCHANGED <<storage, clock, written, pending, run, page, side>>

\* A fresh process (window.location.reload(), or the next visit): the
\* module is loaded again, initialState is rebuilt and the store is created
\* and hydrated from whatever localStorage holds.
Reload ==
    /\ StartProcess
    /\ UNCHANGED event

Next ==
    \/ SetTheme
    \/ SetLanguage
    \/ SetOnlineStatus
    \/ UpdateLastActivity
    \/ ToggleTheme
    \/ Tick
    \/ Reload

Spec == Init /\ [][Next]_vars

----------------------------------------------------------------------------
(* The user interface: the boundaries and the route's error element.       *)

appVars == <<store, storage, initialState, clock, call, before, prev, written,
             lastSet, pending, run>>

\* The content directly inside boundary b renders: for the first time after
\* the boundary was mounted or reset ("mount"), or again ("update").
Render(b) ==
    \E outcome \in Outcomes, e \in Errors :
        /\ route = "none"
        /\ boundary[b].mounted
        /\ Status(boundary[b]) = "rendering-children"
        /\ boundary' = Rendered(boundary, b, outcome, e)
        /\ event' = Event(IF boundary[b].rendered THEN "update" ELSE "mount",
                          b, outcome, e)
        /\ UNCHANGED <<appVars, route, page, side>>

\* What the content inside boundary b awaited is there: React renders the
\* content again.
Resolve(b) ==
    \E outcome \in Outcomes, e \in Errors :
        /\ route = "none"
        /\ boundary[b].mounted
        /\ Status(boundary[b]) = "suspended"
        /\ boundary' = Rendered([boundary EXCEPT ![b].pending = FALSE], b, outcome, e)
        /\ event' = Event("resolve", b, outcome, e)
        /\ UNCHANGED <<appVars, route, page, side>>

\* The fallback's retry button: resetErrorBoundary().  onReset runs, the
\* state is reset and the children are mounted and rendered anew.
Reset(b) ==
    \E outcome \in Outcomes, e \in Errors :
        /\ route = "none"
        /\ boundary[b].mounted
        /\ Status(boundary[b]) = "errored"
        /\ store' = onReset(store)
        /\ boundary' = Rendered([boundary EXCEPT ![b] = resetErrorBoundary(@)],
                                b, outcome, e)
        /\ event' = Event("reset", b, outcome, e)
        /\ call' = [op |-> "reset", arg |-> b, caller |-> "none",
                    wrote |-> "none", threw |-> FALSE]
        /\ before' = Snapshot
        /\ prev' = Earlier
        /\ UNCHANGED <<storage, initialState, clock, written, lastSet, pending, run,
                       route, page, side>>

\* A timer or an event handler of the content inside boundary b throws,
\* after that content has rendered.
Fault(b) ==
    \E e \in Errors :
        /\ route = "none"
        /\ boundary[b].mounted
        /\ boundary[b].rendered
        /\ Status(boundary[b]) = "rendering-children"
        /\ boundary' = IF Caught("callback")
                       THEN Rendered(boundary, b, "throws", e)
                       ELSE boundary
        /\ event' = Event("fault", b, "throws", e)
        /\ UNCHANGED <<appVars, route, page, side>>

\* A component that no module boundary encloses (the layout, the navigation)
\* throws while rendering: the route's errorElement takes over the page.
RouteThrow ==
    \E e \in Errors :
        /\ route = "none"
        /\ route' = e
        /\ boundary' = Mounted0({})
        /\ event' = Event("route", "route", "throws", e)
        /\ UNCHANGED <<appVars, page, side>>

\* The reload button of DefaultErrorFallback: window.location.reload().
ReloadPage(b) ==
    /\ route = "none"
    /\ boundary[b].mounted
    /\ Status(boundary[b]) = "errored"
    /\ FallbackComponent(b) = "DefaultErrorFallback"
    /\ StartProcess
    /\ event' = Event("reload", b, "none", "none")

\* The retry button of RouteErrorBoundary: window.location.reload().
RouteRetry ==
    /\ route # "none"
    /\ StartProcess
    /\ event' = Event("reload", "route", "none", "none")

UI ==
    \/ \E b \in Boundaries : Render(b)
    \/ \E b \in Boundaries : Resolve(b)
    \/ \E b \in Boundaries : Reset(b)
    \/ \E b \in Boundaries : Fault(b)
    \/ RouteThrow
    \/ \E b \in Boundaries : ReloadPage(b)
    \/ RouteRetry

\* The application as routed: the home route's boundary next to the store,
\* of which one persisted field (theme; language is set by the same code)
\* and both volatile ones are written.
NextApp ==
    \/ SetTheme
    \/ SetOnlineStatus
    \/ UpdateLastActivity
    \/ Tick
    \/ UI

SpecApp == Init /\ [][NextApp]_vars

\* A page with several boundaries, side by side and nested.
InitTree ==
    /\ clock = 0
    /\ initialState = InitialStateAt(0)
    /\ storage = NoItem
    /\ store = Hydrate(NoItem, InitialStateAt(0))
    /\ call = Created(0)
    /\ before = [store |-> InitialStateAt(0), storage |-> NoItem]
    /\ prev = <<>>
    /\ written = <<>>
    /\ lastSet = [theme |-> <<>>, language |-> <<>>]
    /\ pending = [c \in Callers |-> <<>>]
    /\ run = [origin |-> "light", done |-> 0, lost |-> 0, overlap |-> FALSE]
    /\ page = {"home", "dashboard"}
    /\ boundary = Mounted0({"home", "dashboard"})
    /\ route = "none"
    /\ event = Event("start", "route", "none", "none")
    /\ nav = Located(<<>>)
    /\ hook = useState
    /\ deb = NoCalls

SpecTree == InitTree /\ [][UI]_vars

----------------------------------------------------------------------------
(* Navigation and the route's error element.                               *)

\* The location changes to a pathname (a link, the address bar).
Navigate ==
    \E pathname \in Pathnames :
        /\ nav' = Located(pathname)
        /\ UNCHANGED <<appVars, ui, hook, deb>>

\* Something under the matched routes throws what no module boundary takes
\* (a layout, a thrown Response): the nearest errorElement renders
\* RouteErrorBoundary, which calls getErrorInfo().
RouteErrorBoundary ==
    \E error \in RouteErrors :
        /\ nav.caught
        /\ nav' = [nav EXCEPT !.error = error,
                              !.match = <<"RouteErrorBoundary", "Layout">>,
                              !.errorInfo = getErrorInfo(error),
                              !.buttons = Buttons(getErrorInfo(error)),
                              !.op = "error"]
        /\ UNCHANGED <<appVars, ui, hook, deb>>

\* handleGoHome: navigate("/", { replace: true }).
handleGoHome ==
    /\ "handleGoHome" \in nav.buttons
    /\ nav' = [Located(<<>>) EXCEPT !.op = "handleGoHome"]
    /\ UNCHANGED <<appVars, ui, hook, deb>>

\* handleRetry: window.location.reload() at the same pathname.
handleRetry ==
    /\ "handleRetry" \in nav.buttons
    /\ nav' = [Located(nav.pathname) EXCEPT !.op = "handleRetry"]
    /\ UNCHANGED <<appVars, ui, hook, deb>>

NextRouter ==
    \/ Navigate
    \/ RouteErrorBoundary
    \/ handleGoHome
    \/ handleRetry

SpecRouter == Init /\ [][NextRouter]_vars

----------------------------------------------------------------------------
(* useHomeData: the effect's fetchData() and every refetch().              *)

\* The job queue is empty: no call waits to resume after its await.
Drained == \A slot \in Slots : hook.calls[slot].state # "resumable"

\* fetchData() is called, by the mount effect or as refetch.
FetchData ==
    \E slot \in Slots :
        /\ Drained
        /\ hook.calls[slot].state = "idle"
        /\ hook' = Fetching(hook, slot)
        /\ UNCHANGED <<appVars, ui, nav, deb>>

\* The promise of homeApi.getData() settles.
Settles ==
    \E slot \in Slots, outcome \in Settlements :
        /\ Drained
        /\ hook.calls[slot].state = "awaiting"
        /\ hook' = [hook EXCEPT !.calls[slot] =
                                    [state |-> "resumable", outcome |-> outcome],
                                !.op = "settles", !.slot = slot,
                                !.outcome = outcome, !.prior = hook.data]
        /\ UNCHANGED <<appVars, ui, nav, deb>>

\* The call resumes after its await and runs to its end.
Resume(slot) ==
    /\ hook.calls[slot].state = "resumable"
    /\ hook' = Resumed(hook, slot)
    /\ UNCHANGED <<appVars, ui, nav, deb>>

NextHome ==
    \/ FetchData
    \/ Settles
    \/ \E slot \in Slots : Resume(slot)

SpecHome == Init /\ [][NextHome]_vars

----------------------------------------------------------------------------
(* debounce: calls of the debounced functions, and the host's timers.      *)

\* A debounced function is called.
CallDebounced ==
    \E f \in Debounced, args \in Args :
        /\ deb.nextId <= MaxCalls
        /\ deb' = Returned(deb, f, args)
        /\ UNCHANGED <<appVars, ui, nav, hook>>

\* The host runs the callback of a timer that is due: func(...args).  A
\* timer never runs early; it runs when the host gets to it.
Timeout ==
    \E timer \in deb.timers :
        /\ deb.now >= timer.due
        /\ deb' = [deb EXCEPT !.timers = @ \ {timer},
                              !.invoked[timer.fn] =
                                    Append(@, [call |-> timer.call, t |-> deb.now,
                                               args |-> timer.args])]
        /\ UNCHANGED <<appVars, ui, nav, hook>>

\* Time passes.
Elapse ==
    /\ deb.now < MaxNow
    /\ deb' = [deb EXCEPT !.now = @ + 1]
    /\ UNCHANGED <<appVars, ui, nav, hook>>

NextDebounce ==
    \/ CallDebounced
    \/ Timeout
    \/ Elapse

SpecDebounce == Init /\ [][NextDebounce]_vars

\* Jobs queued by a settled promise are run.
SpecHomeFair == SpecHome /\ \A slot \in Slots : WF_vars(Resume(slot))

----------------------------------------------------------------------------
(* toggleTheme on a runtime that does not run a call to completion before  *)
(* the next one starts: its get() and its set() are two steps, and calls   *)
(* of other callers (toggleTheme or setTheme) may run between them.        *)

Idle == \A c \in Callers : pending[c] = <<>>

Started == run.done + Cardinality({c \in Callers : pending[c] # <<>>})

\* const { theme } = get();
ToggleRead ==
    \E c \in Callers :
        /\ pending[c] = <<>>
        /\ Started < MaxToggles
        /\ pending' = [pending EXCEPT ![c] = <<store.theme>>]
        /\ run' = [run EXCEPT !.overlap = run.overlap \/ ~Idle]
        /\ UNCHANGED <<store, storage, initialState, clock, call, before, prev,
                       written, lastSet, ui, side>>

\* set({ theme: theme === "light" ? "dark" : "light" });
ToggleWrite ==
    \E c \in Callers, fails \in BOOLEAN :
        /\ pending[c] # <<>>
        /\ LET theme == pending[c][1]
               r == persistSet(store, storage, [theme |-> Flip(theme)], fails)
           IN  /\ store' = r.store
               /\ storage' = r.storage
               /\ call' = Called("toggleTheme", "none", c, r)
               /\ before' = Snapshot
               /\ prev' = <<>>
               /\ written' = Written(r)
               /\ lastSet' = [lastSet EXCEPT !.theme = <<>>]
               /\ pending' = [pending EXCEPT ![c] = <<>>]
               /\ run' = [run EXCEPT !.done = run.done + 1,
                                     !.lost = run.lost +
                                                IF theme = store.theme THEN 0 ELSE 1]
               /\ UNCHANGED <<initialState, clock, ui, side>>

\* setTheme: theme => set({ theme }), possibly inside a toggleTheme's get .. set
SetThemeBetween ==
    \E c \in Callers, v \in Themes, fails \in BOOLEAN :
        /\ pending[c] = <<>>
        /\ LET r == persistSet(store, storage, [theme |-> v], fails)
           IN  /\ store' = r.store
               /\ storage' = r.storage
               /\ call' = Called("setTheme", v, c, r)
               /\ before' = Snapshot
               /\ prev' = <<>>
               /\ written' = Written(r)
               /\ lastSet' = [lastSet EXCEPT !.theme = <<v>>]
               /\ run' = [origin |-> v, done |-> 0, lost |-> 0, overlap |-> ~Idle]
               /\ UNCHANGED <<initialState, clock, pending, ui, side>>

NextSplit ==
    \/ ToggleRead
    \/ ToggleWrite
    \/ SetThemeBetween

SpecSplit == Init /\ [][NextSplit]_vars

----------------------------------------------------------------------------
(* Properties of the store.                                                *)

MutatorsOfPersisted == {"setTheme", "setLanguage", "toggleTheme"}

MutatorsOfVolatile == {"setOnlineStatus", "updateLastActivity"}

\* The state object of the item that storage holds (storage # NoItem).
Durable(text) == Parse(text).state

\* C1: once setTheme(v) has completed, for either theme v and from any
\* state, the store's theme is exactly v.
C1_SetThemeThenRead ==
    call.op = "setTheme" => store.theme = call.arg

C1_Witness ==
    /\ call.op = "setTheme"
    /\ call.arg = "dark"
    /\ before.store.theme = "light"
    /\ store.theme = "dark"

\* C2: after two toggleTheme calls in a row, with no other call between
\* them, the theme is the one it was before the first of the two.
C2_ToggleTwice ==
    (call.op = "toggleTheme" /\ prev # <<>>) => store.theme = prev[1]

C2_Witness ==
    /\ call.op = "toggleTheme"
    /\ prev = <<"dark">>
    /\ before.store.theme = "light"
    /\ store.theme = "dark"

\* C3: in every reachable state, rehydrated or reached by any calls, the
\* theme is light or dark.
C3_ThemeInEnum ==
    store.theme \in Themes

C3_Witness ==
    /\ call.op = "create"
    /\ storage # NoItem
    /\ before.store.theme = "light"
    /\ store.theme = "dark"

\* C4: a store created over a persisted subset has the persisted theme and
\* language, isOnline = true and lastActivity = its creation time, whatever
\* isOnline and lastActivity were in the process before.
C4_RehydrateRoundTrip ==
    (call.op = "create" /\ written # <<>>) =>
        /\ store.theme = written[1].theme
        /\ store.language = written[1].language
        /\ store.isOnline = TRUE
        /\ store.lastActivity = call.arg
        /\ initialState.lastActivity = call.arg

C4_Witness ==
    /\ call.op = "create"
    /\ written = <<[theme |-> "dark", language |-> "fr"]>>
    /\ store.theme = "dark"
    /\ store.language = "fr"
    /\ before.store.isOnline = FALSE
    /\ before.store.lastActivity # store.lastActivity

\* C5: every setTheme, setLanguage and toggleTheme call writes to storage,
\* and when the write succeeded the stored theme and language are the
\* in-memory ones.
C5_WriteFollowsMutation ==
    call.op \in MutatorsOfPersisted =>
        /\ call.wrote \in {"ok", "failed"}
        /\ call.wrote = "ok" =>
            /\ storage # NoItem
            /\ Durable(storage) = [theme |-> store.theme, language |-> store.language]

C5_Witness ==
    /\ call.op = "toggleTheme"
    /\ call.wrote = "ok"
    /\ before.storage # NoItem
    /\ storage # before.storage

\* C6 as stated: the stored item holds only theme and language, and a
\* setOnlineStatus or updateLastActivity call leaves the stored theme and
\* language as they were.
C6_VolatileCallsLeaveStorage ==
    /\ storage # NoItem => DOMAIN Durable(storage) = {"theme", "language"}
    /\ (call.op \in MutatorsOfVolatile /\ before.storage # NoItem) =>
            Durable(storage) = Durable(before.storage)

\* C6 as amended: the stored item holds only theme and language; a
\* setOnlineStatus or updateLastActivity call writes the persisted subset
\* too, so it leaves storage as it was when its write fails or when storage
\* already held the in-memory theme and language, and otherwise brings the
\* stored theme and language to the in-memory ones.
C6_VolatileCallsRewriteSubset ==
    /\ storage # NoItem => DOMAIN Durable(storage) = {"theme", "language"}
    /\ call.op \in MutatorsOfVolatile =>
        /\ store.theme = before.store.theme
        /\ store.language = before.store.language
        /\ call.wrote = "failed" => storage = before.storage
        /\ call.wrote = "ok" =>
            /\ storage # NoItem
            /\ Durable(storage) = [theme |-> store.theme, language |-> store.language]
        /\ ( /\ before.storage # NoItem
             /\ Durable(before.storage) =
                    [theme |-> before.store.theme, language |-> before.store.language] )
            => storage = before.storage

C6_Witness ==
    /\ call.op = "setOnlineStatus"
    /\ call.wrote = "ok"
    /\ store.isOnline = FALSE
    /\ before.storage # NoItem
    /\ Durable(before.storage).theme = "light"
    /\ Durable(storage).theme = "dark"

\* C7: when the write of a setTheme, setLanguage or toggleTheme call fails,
\* storage keeps what it held and the in-memory state has the new value.
C7_MemoryUpdatedOnFailedWrite ==
    (call.op \in MutatorsOfPersisted /\ call.wrote = "failed") =>
        /\ storage = before.storage
        /\ call.op = "setTheme" => store.theme = call.arg
        /\ call.op = "setLanguage" => store.language = call.arg
        /\ call.op = "toggleTheme" =>
            (store.theme \in Themes /\ store.theme # before.store.theme)

C7_Witness ==
    /\ call.op = "setLanguage"
    /\ call.wrote = "failed"
    /\ before.store.language = "en"
    /\ store.language = "fr"

\* C8: no store action raises an error to its caller, also when its write
\* to storage fails.
C8_NoActionThrows ==
    call.threw = FALSE

\* C9: last write wins: whichever callers issued them and whatever calls
\* on other fields followed, the theme is the argument of the latest
\* setTheme (unless a toggleTheme came after it) and the language that of the
\* latest setLanguage, whether or not storage has caught up.
C9_LastWriteWins ==
    /\ lastSet.theme # <<>> => store.theme = lastSet.theme[1]
    /\ lastSet.language # <<>> => store.language = lastSet.language[1]

C9_Witness ==
    /\ lastSet.theme = <<"dark">>
    /\ lastSet.language = <<"fr">>
    /\ call.op = "updateLastActivity"
    /\ call.caller = "settings"
    /\ store.theme = "dark"
    /\ storage # NoItem
    /\ Durable(storage).theme = "light"

\* The theme that n flips make of the theme t: t itself for an even n, the
\* other theme for an odd n.
AfterFlips(t, n) == IF n % 2 = 0 THEN t ELSE CHOOSE x \in Themes : x # t

\* C10: with toggleTheme's get and set as separate steps, N completed calls
\* flip the theme N times as long as no call ran inside another's get .. set;
\* a call that wrote from a theme no longer current loses its flip, which
\* only happens when calls did overlap.
C10_TogglesFlipWhenSerialized ==
    /\ store.theme = AfterFlips(run.origin, run.done - run.lost)
    /\ ~run.overlap => run.lost = 0

\* Two overlapping toggleTheme calls have both completed and the theme is
\* not back at the one they started from: a lost update.
C10_Witness ==
    /\ Idle
    /\ run.overlap
    /\ run.done = 2
    /\ run.lost = 1
    /\ store.theme # run.origin

\* A step of the running process (not the start of a fresh one): a store
\* action, which records itself in call, or the passing of time.
InProcess == call'.op # "create" \/ clock' # clock

\* C11: within one process, with a clock that never goes back, lastActivity
\* never decreases: updateLastActivity sets it to the current time and no
\* other step changes it.
C11_LastActivityMonotonic ==
    [][InProcess =>
        /\ store'.lastActivity >= store.lastActivity
        /\ (call'.op = "updateLastActivity" /\ clock' = clock)
                => store'.lastActivity = clock
        /\ (call'.op # "updateLastActivity" \/ clock' # clock)
                => store'.lastActivity = store.lastActivity]_vars

C11_Witness ==
    /\ call.op = "updateLastActivity"
    /\ store.lastActivity = clock
    /\ store.lastActivity > before.store.lastActivity
    /\ store.lastActivity > initialState.lastActivity

\* C12: every store action changes its own field only: setLanguage(l) sets
\* language to l, whatever string l is, and setTheme, toggleTheme,
\* setOnlineStatus and updateLastActivity likewise leave the other three
\* fields as they were.
C12_SettersChangeOwnFieldOnly ==
    /\ call.op = "setLanguage" =>
            store = [before.store EXCEPT !.language = call.arg]
    /\ call.op = "setTheme" =>
            store = [before.store EXCEPT !.theme = call.arg]
    /\ call.op = "setOnlineStatus" =>
            store = [before.store EXCEPT !.isOnline = call.arg]
    /\ call.op = "toggleTheme" =>
            /\ store.theme # before.store.theme
            /\ store = [before.store EXCEPT !.theme = store.theme]
    /\ call.op = "updateLastActivity" =>
            store = [before.store EXCEPT !.lastActivity = store.lastActivity]

C12_Witness ==
    /\ call.op = "setLanguage"
    /\ call.arg = "fr"
    /\ before.store = [theme |-> "dark", language |-> "en", isOnline |-> FALSE,
                       lastActivity |-> 0]
    /\ store = [theme |-> "dark", language |-> "fr", isOnline |-> FALSE,
                lastActivity |-> 0]
    /\ clock > 0

----------------------------------------------------------------------------
(* The module error boundary.                                              *)

\* C13: a boundary whose subtree throws in its initial render shows the
\* fallback instead of the subtree, and the error handler has been called
\* exactly once, with the error thrown: the onError the caller passed if it
\* passed one, the default logging handler otherwise.
C13_ThrowOnMountShowsFallback ==
    /\ \A b \in Boundaries :
        boundary[b].didCatch =>
            /\ Shown(boundary[b]) = {"fallback"}
            /\ Len(boundary[b].reported) = 1
            /\ boundary[b].reported[1].error = boundary[b].error
            /\ boundary[b].reported[1].handler =
                    IF Props[b].onError # "none" THEN Props[b].onError
                    ELSE "handleError"
    /\ (event.op = "mount" /\ event.outcome = "throws") =>
            /\ boundary[event.b].didCatch
            /\ boundary[event.b].error = event.error

C13_Witness ==
    /\ event = Event("mount", "dashboard", "throws", "ChunkLoadError")
    /\ boundary["dashboard"].reported =
            <<[handler |-> "reportError", error |-> "ChunkLoadError"]>>
    /\ boundary["home"].reported =
            <<[handler |-> "handleError", error |-> "TypeError"]>>
    /\ Shown(boundary["dashboard"]) = {"fallback"}
    /\ Shown(boundary["home"]) = {"fallback"}

\* C14: a boundary whose subtree suspends shows the loading indicator as
\* long as what the subtree awaits is not there, and the content once it is
\* and the subtree has rendered; the error handler is not called on the way.
C14_SuspendShowsLoadingThenContent ==
    /\ \A b \in Boundaries :
        (boundary[b].mounted /\ boundary[b].pending) =>
            /\ Shown(boundary[b]) = {"loading"}
            /\ boundary[b].reported = <<>>
    /\ (event.op \in {"mount", "update", "resolve", "reset"}
            /\ event.outcome = "suspends") =>
            /\ boundary[event.b].pending
            /\ Shown(boundary[event.b]) = {"loading"}
    /\ (event.op = "resolve" /\ event.outcome = "ok") =>
            /\ ~boundary[event.b].pending
            /\ Shown(boundary[event.b]) = {"children"}
            /\ boundary[event.b].reported = <<>>

C14_Witness ==
    /\ event = Event("resolve", "widget", "ok", "none")
    /\ Shown(boundary["widget"]) = {"children"}
    /\ boundary["widget"].reported = <<>>
    /\ boundary["home"].pending
    /\ Shown(boundary["home"]) = {"loading"}

\* C15: a reset of an errored boundary mounts the subtree again: if it
\* renders, the content replaces the fallback; if it throws again, the
\* boundary is errored again, with the new error.
C15_ResetRemounts ==
    event.op = "reset" =>
        /\ event.outcome = "ok" =>
                /\ Status(boundary[event.b]) = "rendering-children"
                /\ Shown(boundary[event.b]) = {"children"}
                /\ boundary[event.b].rendered
        /\ event.outcome = "throws" =>
                /\ Status(boundary[event.b]) = "errored"
                /\ Shown(boundary[event.b]) = {"fallback"}
                /\ boundary[event.b].error = event.error

C15_Witness ==
    /\ event = Event("reset", "home", "ok", "none")
    /\ Shown(boundary["home"]) = {"children"}
    /\ boundary["home"].reported = <<>>

\* C16: what a timer or an event handler throws after the subtree has
\* rendered is not caught: the boundary stays in rendering-children, shows
\* its children and calls no error handler.
C16_CallbackFaultNotCaught ==
    event.op = "fault" =>
        /\ Status(boundary[event.b]) = "rendering-children"
        /\ Shown(boundary[event.b]) = {"children"}
        /\ boundary[event.b].reported = <<>>
        /\ route = "none"

C16_Witness ==
    /\ event = Event("fault", "widget", "throws", "TypeError")
    /\ boundary["widget"].rendered
    /\ Status(boundary["widget"]) = "rendering-children"
    /\ Status(boundary["dashboard"]) = "rendering-children"

\* The boundaries inside boundary b.
RECURSIVE Inside(_, _)
Inside(c, b) ==
    /\ Parent[c] \in Boundaries
    /\ (Parent[c] = b \/ Inside(Parent[c], b))

\* C17: a throw while the content of a boundary renders makes that boundary
\* errored and changes no boundary beside or around it, and the route's
\* error element shows an error only when the throw was enclosed by no
\* module boundary.
C17_FaultContainedAtNearest ==
    [][/\ (event'.op \in {"mount", "update", "resolve", "reset"}
                /\ event'.outcome = "throws") =>
            /\ Status(boundary'[event'.b]) = "errored"
            /\ \A c \in Boundaries :
                    (c # event'.b /\ ~Inside(c, event'.b)) =>
                        boundary'[c] = boundary[c]
            /\ route' = route
       /\ route' # route => event'.op \in {"route", "reload"}]_vars

C17_Witness ==
    /\ event = Event("mount", "widget", "throws", "TypeError")
    /\ Status(boundary["widget"]) = "errored"
    /\ Status(boundary["dashboard"]) = "rendering-children"
    /\ boundary["dashboard"].rendered
    /\ Status(boundary["home"]) = "suspended"
    /\ route = "none"

\* C18: the default reset callback only logs: a reset leaves theme,
\* language, isOnline and lastActivity in memory, and the record in
\* localStorage, as they were.
C18_ResetLeavesStore ==
    call.op = "reset" =>
        /\ store = before.store
        /\ storage = before.storage

C18_Witness ==
    /\ call.op = "reset"
    /\ event.op = "reset"
    /\ store.theme = "dark"
    /\ ~store.isOnline
    /\ store.lastActivity > initialState.lastActivity
    /\ storage # NoItem
    /\ store = before.store

\* Some transition of boundary b can be taken.
CanStep(b) ==
    \/ ENABLED Render(b)
    \/ ENABLED Resolve(b)
    \/ ENABLED Reset(b)

\* C19: a mounted boundary is in exactly one of rendering-children,
\* suspended and errored, and shows the children, the loading indicator or
\* the fallback accordingly, never two of them; it starts in
\* rendering-children; it can always take some transition; and it leaves
\* errored only by a reset or a reload.
C19_OneStateAtATime ==
    /\ [](\A b \in Boundaries :
            boundary[b].mounted =>
                /\ Status(boundary[b]) = "rendering-children"
                        <=> Shown(boundary[b]) = {"children"}
                /\ Status(boundary[b]) = "suspended"
                        <=> Shown(boundary[b]) = {"loading"}
                /\ Status(boundary[b]) = "errored"
                        <=> Shown(boundary[b]) = {"fallback"}
                /\ Cardinality(Shown(boundary[b])) = 1
                /\ (boundary[b].pending /\ boundary[b].didCatch) = FALSE
                /\ route = "none" => CanStep(b))
    /\ [][\A b \in Boundaries :
            /\ (~boundary[b].mounted /\ boundary'[b].mounted) =>
                    /\ boundary'[b] = Fresh
                    /\ Status(boundary'[b]) = "rendering-children"
            /\ (boundary[b].mounted /\ Status(boundary[b]) = "errored"
                    /\ boundary'[b].mounted
                    /\ Status(boundary'[b]) # "errored") =>
                    \/ event' = Event("reset", b, event'.outcome, "none")
                    \/ event'.op = "reload"]_vars

C19_Witness ==
    /\ Status(boundary["home"]) = "errored"
    /\ Status(boundary["dashboard"]) = "rendering-children"
    /\ Status(boundary["widget"]) = "suspended"
    /\ boundary["widget"].mounted
    /\ event.op = "reset"

\* C20: the reload button of the default fallback is there whenever the
\* boundary is errored, and it restarts the process: the boundary is in its
\* initial state again, isOnline is true and lastActivity the time of the
\* restart, and theme and language are the ones last written to
\* localStorage (the defaults if nothing was).
C20_ReloadRestarts ==
    /\ \A b \in Boundaries :
        (boundary[b].mounted /\ Status(boundary[b]) = "errored"
            /\ Props[b].fallback = "none") => ENABLED ReloadPage(b)
    /\ (event.op = "reload" /\ event.b \in Boundaries /\ call.op = "create") =>
        /\ \A b \in page :
                /\ boundary[b] = Fresh
                /\ Status(boundary[b]) = "rendering-children"
        /\ store.isOnline = TRUE
        /\ store.lastActivity = call.arg
        /\ store.theme = IF written = <<>> THEN "light" ELSE written[1].theme
        /\ store.language = IF written = <<>> THEN "en" ELSE written[1].language

C20_Witness ==
    /\ event = Event("reload", "home", "none", "none")
    /\ call.op = "create"
    /\ before.store.theme = "light"
    /\ ~before.store.isOnline
    /\ before.store.lastActivity < call.arg
    /\ store = [theme |-> "dark", language |-> "en", isOnline |-> TRUE,
                lastActivity |-> call.arg]
    /\ boundary["home"] = Fresh

----------------------------------------------------------------------------
(* The router.                                                             *)

C27_RetryUnlessNotFound ==
    nav.op = "error" =>
        LET notFound == nav.error.kind = "object" /\ nav.error.status = "404"
        IN  /\ nav.errorInfo.showRetry = ~notFound
            /\ ("handleRetry" \in nav.buttons) = ~notFound
            /\ "handleGoHome" \in nav.buttons

C27_Witness ==
    /\ nav.op = "error"
    /\ nav.error.status = "404"
    /\ nav.buttons = {"handleGoHome"}
    /\ ~nav.errorInfo.showRetry

\* C28: getErrorInfo answers for every value of the error, by the first
\* case that applies: status 404, status 500, any other truthy status
\* (title "<status> - <statusText>", the error's message or a default), and
\* otherwise (no status, status 0, null or undefined error) the generic
\* title with the error's message or a default.
C28_ErrorInfoByFirstMatch ==
    nav.op = "error" =>
        LET status  == IF nav.error.kind = "object" THEN nav.error.status
                       ELSE Undefined
            message == IF nav.error.kind = "object" THEN nav.error.message
                       ELSE Undefined
            own     == message \notin {Undefined, ""}
        IN  /\ nav.errorInfo # NoInfo
            /\ status = "404" =>
                    nav.errorInfo.title = <<"404 - Página no encontrada">>
            /\ status = "500" =>
                    nav.errorInfo.title = <<"500 - Server Error">>
            /\ status \notin {"404", "500", "0", Undefined} =>
                    /\ nav.errorInfo.title = <<status, " - ", nav.error.statusText>>
                    /\ nav.errorInfo.message =
                            IF own THEN <<message>>
                            ELSE <<"Ocurrió un error al cargar esta página.">>
            /\ status \in {"0", Undefined} =>
                    /\ nav.errorInfo.title = <<"Algo salió mal!">>
                    /\ nav.errorInfo.message =
                            IF own THEN <<message>>
                            ELSE <<"Ocurrió un error inesperado al navegar.">>

C28_Witness ==
    /\ nav.op = "error"
    /\ nav.error = [kind |-> "object", status |-> "403",
                    statusText |-> "Forbidden", message |-> ""]
    /\ nav.errorInfo.title = <<"403", " - ", "Forbidden">>
    /\ nav.errorInfo.message = <<"Ocurrió un error al cargar esta página.">>

----------------------------------------------------------------------------
(* useHomeData.                                                            *)

\* C22: loading is true whenever a fetchData call is in flight, also when
\* calls overlap.
C22_LoadingWhileInFlight ==
    InFlight(hook) # {} => hook.loading

\* C23: every call of fetchData sets loading to true and error to null
\* before the request, and once the request has settled, resolved or
\* rejected, loading is set to false.
C23_LoadingSetAndCleared ==
    /\ [](hook.op = "fetchData" => (hook.loading /\ hook.error = "null"))
    /\ [](hook.op \in {"resolved", "rejected"} => ~hook.loading)
    /\ \A slot \in Slots :
            (hook.calls[slot].state = "resumable")
                ~> (hook.op \in {"resolved", "rejected"} /\ hook.slot = slot
                        /\ ~hook.loading)

C23_Witness ==
    /\ hook.op = "rejected"
    /\ ~hook.loading
    /\ hook.error = "Network Error"
    /\ InFlight(hook) = {}

\* C24: a rejected request sets error to the Error's message, or to
\* "Failed to fetch data" if what was thrown is no Error, keeps data and
\* lets nothing out to the caller; a resolved one replaces data by the
\* result, and error is null.
C24_SettledState ==
    /\ hook.op = "rejected" =>
            /\ hook.error = IF hook.outcome.isError THEN hook.outcome.message
                            ELSE "Failed to fetch data"
            /\ hook.data = hook.prior
            /\ ~hook.threw
    /\ hook.op = "resolved" =>
            /\ hook.data = hook.outcome.value
            /\ hook.error = "null"

----------------------------------------------------------------------------
(* debounce.                                                               *)

\* The invocations of func made for call k of debounced function f.
InvocationsOf(f, k) ==
    {i \in DOMAIN deb.invoked[f] : deb.invoked[f][i].call = k}

\* C25 as stated: a burst (calls each less than wait after the one before)
\* that a later call has closed has had func invoked exactly once, for its
\* last call.
C25_BurstInvokedOnce ==
    \A f \in Debounced :
        \A k \in DOMAIN deb.calls[f] :
            (k < Len(deb.calls[f])
                /\ deb.calls[f][k + 1].t >= deb.calls[f][k].t + Wait[f]) =>
                    Cardinality(InvocationsOf(f, k)) = 1

\* C25: func is invoked at most once per burst: only for the last call of
\* the burst, with that call's arguments, not before wait has elapsed since
\* that call and before any later call; and once no timer is pending, the
\* last call made has had its invocation.
C25_BurstInvokedAtMostOnce ==
    \A f \in Debounced :
        /\ \A i \in DOMAIN deb.invoked[f] :
            LET k == deb.invoked[f][i].call
            IN  /\ k \in DOMAIN deb.calls[f]
                /\ deb.invoked[f][i].args = deb.calls[f][k].args
                /\ deb.invoked[f][i].t >= deb.calls[f][k].t + Wait[f]
                /\ k < Len(deb.calls[f]) =>
                        /\ deb.calls[f][k + 1].t >= deb.invoked[f][i].t
                        /\ deb.calls[f][k + 1].t >= deb.calls[f][k].t + Wait[f]
                /\ InvocationsOf(f, k) = {i}
        /\ ({timer \in deb.timers : timer.fn = f} = {} /\ deb.calls[f] # <<>>) =>
                InvocationsOf(f, Len(deb.calls[f])) # {}

C25_Witness ==
    /\ deb.calls["search"] = <<[t |-> 0, args |-> "a"], [t |-> 1, args |-> "b"]>>
    /\ deb.invoked["search"] = <<[call |-> 2, t |-> 3, args |-> "b"]>>
    /\ deb.timers = {}

\* C26: each debounced function has at most one invocation pending, that
\* of its latest call (every call cancels the one pending before it), and
\* func has never been invoked more often than the function was called.
C26_OnePendingPerFunction ==
    \A f \in Debounced :
        LET mine == {timer \in deb.timers : timer.fn = f}
        IN  /\ Cardinality(mine) <= 1
            /\ \A timer \in mine :
                    /\ timer.id = deb.timeout[f]
                    /\ timer.call = Len(deb.calls[f])
                    /\ timer.args = deb.calls[f][timer.call].args
            /\ Len(deb.invoked[f]) <= Len(deb.calls[f])

C26_Witness ==
    /\ Len(deb.calls["search"]) = 2
    /\ Len(deb.calls["resize"]) = 1
    /\ Cardinality(deb.timers) = 2
    /\ deb.invoked["search"] = <<>>
    /\ \E timer \in deb.timers : timer.fn = "search" /\ timer.call = 2

====
